---- MODULE Spec2Model ----
(***************************************************************************)
(* Model of src/Core/Registration/Registration.cpp (namespace three):      *)
(*   GetRegistrationResultAndCorrespondences  (the Evaluator, OpenMP)      *)
(*   EvaluateRANSACBasedOnCorrespondence                                   *)
(*   EvaluateRegistration                                                  *)
(*   RegistrationICP                                                       *)
(*   RegistrationRANSACBasedOnCorrespondence                               *)
(*   RegistrationRANSACBasedOnFeatureMatching (OpenMP)                     *)
(*   GetInformationMatrixFromRegistrationResult (OpenMP)                   *)
(*                                                                         *)
(* Numbers.  Points have integer coordinates and 4x4 transformations have  *)
(* integer entries, so every product and every squared distance is exact.  *)
(* A double that is a quotient (fitness_) is kept as the exact rational    *)
(* [num, den]; inlier_rmse_ = sqrt(error2 / n) is kept as its radicand     *)
(* [num |-> error2, den |-> n], and every comparison of two such values is *)
(* done exactly (sqrt is monotone).  Floating-point rounding is not        *)
(* modelled.                                                               *)
(*                                                                         *)
(* Indices are 0-based as in the code; the k-th point of a cloud c is      *)
(* c[k + 1].                                                               *)
(***************************************************************************)
EXTENDS Integers, Sequences, FiniteSets, TLC

\* ------------------------------------------------------------------ bounds

\* Largest OpenMP team (omp_get_num_threads()) explored.
NumThreads == 2
\* Largest number of points of a cloud.
MaxPoints == 2

\* ------------------------------------------------------- numbers and sets

Abs(x) == IF x < 0 THEN -x ELSE x

Min(a, b) == IF a < b THEN a ELSE b

Rat(n, d) == [num |-> n, den |-> d]

RatZero == Rat(0, 1)

RatIsZero(a) == a.num = 0

RatEq(a, b) == a.num * b.den = b.num * a.den

RatLess(a, b) == a.num * b.den < b.num * a.den

\* |a - b| < t for rationals a, b, t (std::abs(x - y) < t).
AbsDiffLess(a, b, t) ==
    Abs(a.num * b.den - b.num * a.den) * t.den < t.num * a.den * b.den

\* |sqrt(a) - sqrt(b)| < t for rationals a, b >= 0 and a rational t:
\* (sqrt a - sqrt b)^2 < t^2  <=>  a + b - t^2 < 2 sqrt(a b).
SqrtAbsDiffLess(a, b, t) ==
    LET A  == a.num * b.den * t.den * t.den
        B  == b.num * a.den * t.den * t.den
        T2 == t.num * t.num * a.den * b.den
        L  == A + B - T2
    IN  /\ t.num > 0
        /\ (L < 0 \/ L * L < 4 * A * B)

Range(s) == {s[k] : k \in 1..Len(s)}

RECURSIVE SumSeq(_)
SumSeq(s) == IF s = <<>> THEN 0 ELSE s[1] + SumSeq(Tail(s))

\* ------------------------------------------------- Eigen::Matrix4d, points

Identity4 == <<<<1, 0, 0, 0>>, <<0, 1, 0, 0>>, <<0, 0, 1, 0>>, <<0, 0, 0, 1>>>>

\* Translation by (1, 0, 0).
TransX == <<<<1, 0, 0, 1>>, <<0, 1, 0, 0>>, <<0, 0, 1, 0>>, <<0, 0, 0, 1>>>>

\* Rotation by 90 degrees about z: (x, y, z) -> (-y, x, z).
RotZ == <<<<0, -1, 0, 0>>, <<1, 0, 0, 0>>, <<0, 0, 1, 0>>, <<0, 0, 0, 1>>>>

Transformations == {Identity4, TransX, RotZ}

\* Eigen's operator* on 4x4 matrices.
MatMul(A, B) ==
    [r \in 1..4 |-> [c \in 1..4 |->
        A[r][1] * B[1][c] + A[r][2] * B[2][c] + A[r][3] * B[3][c] + A[r][4] * B[4][c]]]

\* Eigen's isIdentity(), exact on integer matrices.
isIdentity(M) == M = Identity4

TransformPoint(M, p) ==
    <<M[1][1] * p[1] + M[1][2] * p[2] + M[1][3] * p[3] + M[1][4],
      M[2][1] * p[1] + M[2][2] * p[2] + M[2][3] * p[3] + M[2][4],
      M[3][1] * p[1] + M[3][2] * p[2] + M[3][3] * p[3] + M[3][4]>>

\* PointCloud::Transform: every point of the cloud, in place.
Transform(pcd, M) == [k \in 1..Len(pcd) |-> TransformPoint(M, pcd[k])]

\* (p - q).squaredNorm()
squaredNorm(p, q) ==
    (p[1] - q[1]) * (p[1] - q[1]) + (p[2] - q[2]) * (p[2] - q[2])
        + (p[3] - q[3]) * (p[3] - q[3])

\* The points the clouds of the model are cut from.
PointPool == <<<<0, 0, 0>>, <<1, 0, 0>>, <<0, 1, 0>>, <<0, 0, 1>>, <<1, 1, 0>>>>

\* The clouds: the contiguous runs of PointPool of at most MaxPoints points
\* (the empty cloud included).
Clouds ==
    {SubSeq(PointPool, a, b) :
        a \in 1..Min(MaxPoints, Len(PointPool)),
        b \in 0..Min(MaxPoints, Len(PointPool))}

\* max_correspondence_distance: invalid (-1, 0) and valid (1, 2) values.
Distances == {-1, 0, 1, 2}

\* ------------------------------------------------------------ KDTreeFlann

\* KDTreeFlann::SearchHybrid(query, radius, 1, indices, dists): the nearest
\* point of the cloud at squared distance <= radius^2 (the lowest index among
\* equally near ones), n = 0 if there is none.
SearchHybrid(cloud, query, radius) ==
    LET near == {j \in 0..(Len(cloud) - 1) :
                    squaredNorm(cloud[j + 1], query) <= radius * radius}
    IN  IF near = {}
        THEN [n |-> 0, indices |-> <<>>, dists |-> <<>>]
        ELSE LET best == CHOOSE j \in near : \A j2 \in near :
                            \/ squaredNorm(cloud[j + 1], query)
                                   < squaredNorm(cloud[j2 + 1], query)
                            \/ /\ squaredNorm(cloud[j + 1], query)
                                     = squaredNorm(cloud[j2 + 1], query)
                               /\ j <= j2
             IN  [n |-> 1, indices |-> <<best>>,
                  dists |-> <<squaredNorm(cloud[best + 1], query)>>]

\* ----------------------------------------------------- RegistrationResult

\* RegistrationResult(transformation): no correspondence, fitness_ and
\* inlier_rmse_ zero.
RegistrationResult(T) ==
    [transformation_ |-> T, correspondence_set_ |-> <<>>,
     fitness_ |-> RatZero, inlier_rmse_ |-> RatZero]

\* fitness_ taken as the quotient of the two sizes without the conversion to
\* double (an integer division).
SetFitnessIntegerDivision(res, error2, src) ==
    IF res.correspondence_set_ = <<>>
    THEN [res EXCEPT !.fitness_ = RatZero, !.inlier_rmse_ = RatZero]
    ELSE [res EXCEPT !.fitness_ = Rat(Len(res.correspondence_set_) \div Len(src), 1),
                     !.inlier_rmse_ = Rat(error2, Len(res.correspondence_set_))]

\* Lines 87-94: fitness_ and inlier_rmse_ from the merged set and error2.
SetFitnessAndRMSE(res, error2, src) ==
    IF res.correspondence_set_ = <<>>
    THEN [res EXCEPT !.fitness_ = RatZero, !.inlier_rmse_ = RatZero]
    ELSE [res EXCEPT !.fitness_ = Rat(Len(res.correspondence_set_), Len(src)),
                     !.inlier_rmse_ = Rat(error2, Len(res.correspondence_set_))]

\* Lines 62-72, one iteration i of the per-source loop on the private pair
\* acc = [cs |-> correspondence_set_private, e2 |-> error2_private].
SearchStep(acc, src, tgt, max_dist, i) ==
    LET hit == SearchHybrid(tgt, src[i + 1], max_dist)
    IN  IF hit.n > 0
        THEN [cs |-> Append(acc.cs, <<i, hit.indices[1]>>),
              e2 |-> acc.e2 + hit.dists[1]]
        ELSE acc

RECURSIVE SearchLoop(_, _, _, _, _)
SearchLoop(acc, src, tgt, max_dist, i) ==
    IF i >= Len(src) THEN acc
    ELSE SearchLoop(SearchStep(acc, src, tgt, max_dist, i), src, tgt, max_dist, i + 1)

\* GetRegistrationResultAndCorrespondences run by one thread (the build
\* without _OPENMP, or a team of one).
GetRegistrationResultAndCorrespondences(src, tgt, max_dist, T) ==
    IF max_dist <= 0 THEN RegistrationResult(T)
    ELSE LET acc == SearchLoop([cs |-> <<>>, e2 |-> 0], src, tgt, max_dist, 0)
         IN  SetFitnessAndRMSE(
                 [RegistrationResult(T) EXCEPT !.correspondence_set_ = acc.cs],
                 acc.e2, src)

\* Lines 302-304, 207-209, 323-325: the candidate replaces the incumbent.
Better(cand, best) ==
    \/ RatLess(best.fitness_, cand.fitness_)
    \/ /\ RatEq(cand.fitness_, best.fitness_)
       /\ RatLess(cand.inlier_rmse_, best.inlier_rmse_)

\* ------------------------------------------------------------------- state

VARIABLES
    \* the call: which operation, and its arguments
    op,                           \* the operation of the core being called
    num_threads,                  \* size of the OpenMP team (1: also the build without _OPENMP)
    source, target,               \* the caller's clouds
    max_correspondence_distance,
    init,                         \* RegistrationICP
    estimation,                   \* the TransformationEstimation passed in
    criteria,                     \* ICPConvergenceCriteria or RANSACConvergenceCriteria
    corres,                       \* RegistrationRANSACBasedOnCorrespondence; the result's set for the information matrix
    ransac_n,
    source_feature, target_feature,
    checkers,
    \* control
    pc,                           \* position of each thread of the team
    mutex,                        \* holder of the (unnamed) omp critical lock, Free if none
    returned,                     \* the value returned to the caller, NotReturned before
    \* locals of the drivers
    result,                       \* the local `result` of the running function
    transformation,               \* EvaluateRegistration: the argument; RegistrationICP: the local
    pcd,                          \* the driver's clone of source
    icp_i,                        \* RegistrationICP: loop counter i
    itr,                          \* RegistrationRANSACBasedOnCorrespondence: loop counter
    estimation_calls,             \* history: calls of ComputeTransformation so far
    \* the Evaluator's parallel region
    next_i,                       \* omp for: the next iteration not yet handed to a thread
    error2,                       \* shared sum of squared distances
    error2_private,               \* per thread
    correspondence_set_private,   \* per thread
    \* RegistrationRANSACBasedOnFeatureMatching's parallel region
    next_itr,                     \* omp for: the next iteration not yet handed to a thread
    total_validation,             \* shared
    finished_validation,          \* shared
    result_private,               \* per thread
    finished_view,                \* per thread: finished_validation as of the thread's last flush
    late_validations,             \* history, per thread: validations counted with the flag already set
    accesses,                     \* history: the kinds of access made to the two shared variables
    scored,                       \* history: (fitness_, inlier_rmse_) of every hypothesis scored
    \* GetInformationMatrixFromRegistrationResult
    GTG,                          \* shared
    GTG_private,                  \* per thread
    info_c,                       \* per thread: loop counter c
    \* history of the call
    effects,                      \* the kinds of call the operation has made so far
    trace,                        \* per thread: the calls of its current (last) feature-matching iteration
    evaluator_runs,               \* feature matching: runs of the Evaluator so far
    exhausted_start,              \* feature matching: an iteration went to work with total_validation >= max_validation_
    last_tests,                   \* RegistrationICP: the two tests of lines 171-173 in the last iteration
    rand_calls,                   \* RegistrationRANSACBasedOnCorrespondence: calls of std::rand so far
    score_calls,                  \* RegistrationRANSACBasedOnCorrespondence: calls of EvaluateRANSACBasedOnCorrespondence so far
    hypotheses,                   \* RegistrationRANSACBasedOnCorrespondence: the results scored so far
    \* the C library's generator, as RegistrationRANSACBasedOnFeatureMatching uses it
    wall_clock,                   \* (unsigned int)std::time(0)
    rand_shared,                  \* the library keeps one state for the process (else one per thread)
    seed_number,                  \* per thread
    rand_next,                    \* the state std::srand sets and std::rand advances, per cell
    draws                         \* per thread: the values of std::rand() % size so far

\* The arguments but the source cloud.
argVars == <<op, num_threads, target, max_correspondence_distance, init,
             estimation, criteria, corres, ransac_n, source_feature,
             target_feature, checkers>>

inputVars == <<source, argVars>>

driverVars == <<transformation, pcd, icp_i, itr, estimation_calls>>

evalVars == <<next_i, error2, error2_private, correspondence_set_private>>

featureVars == <<next_itr, total_validation, finished_validation, result_private,
                 finished_view, late_validations, accesses, scored>>

infoVars == <<GTG, GTG_private, info_c>>

loopHistory == <<last_tests, rand_calls, score_calls, hypotheses>>

historyVars == <<effects, trace, evaluator_runs, exhausted_start, loopHistory>>

prngVars == <<wall_clock, rand_shared, seed_number, rand_next, draws>>

vars == <<inputVars, pc, mutex, returned, result, driverVars, evalVars, featureVars,
          infoVars, historyVars, prngVars>>

NotReturned == [none |-> TRUE]

Free == -1

Threads == 0..(num_threads - 1)

AllAt(label) == \A w \in Threads : pc[w] = label

NoCriteria == [none |-> TRUE]

\* Arguments an operation does not take.
NoInit == init = Identity4

NoEstimation == estimation = "none" /\ criteria = NoCriteria

NoCorres == corres = <<>> /\ ransac_n = 0

NoFeatures == source_feature = <<>> /\ target_feature = <<>> /\ checkers = <<>>

\* The state of the Evaluator's variables while no parallel Evaluator runs.
EvalIdle ==
    /\ next_i = 0
    /\ error2 = 0
    /\ error2_private = [w \in Threads |-> 0]
    /\ correspondence_set_private = [w \in Threads |-> <<>>]

\* The state of the feature-matching region's variables outside it.
FeatureIdle ==
    /\ next_itr = 0
    /\ total_validation = 0
    /\ finished_validation = FALSE
    /\ result_private = [w \in Threads |-> RegistrationResult(Identity4)]
    /\ finished_view = [w \in Threads |-> FALSE]
    /\ late_validations = [w \in Threads |-> 0]
    /\ accesses = {}
    /\ scored = {}

\* The state of the information matrix's variables before the call.
InfoIdle ==
    /\ GTG = <<>>
    /\ GTG_private = [w \in Threads |-> <<>>]
    /\ info_c = [w \in Threads |-> 0]

\* The generator where the model does not follow it: the clock at 0, one
\* state for the process, as after srand(1).
PRNGIdle ==
    /\ wall_clock = <<0, 0>>
    /\ rand_shared = TRUE
    /\ seed_number = [w \in Threads |-> <<0, 0>>]
    /\ rand_next = [w \in Threads |-> <<0, 1>>]
    /\ draws = [w \in Threads |-> <<>>]

\* The history of a call before it.
HistoryIdle ==
    /\ effects = {}
    /\ trace = [w \in Threads |-> <<>>]
    /\ evaluator_runs = 0
    /\ exhausted_start = FALSE
    /\ last_tests = [fitness |-> FALSE, rmse |-> FALSE]
    /\ rand_calls = 0
    /\ score_calls = 0
    /\ hypotheses = {}

\* The drivers' locals before the call.
DriverIdle ==
    /\ pcd = <<>>
    /\ icp_i = 0
    /\ itr = 0
    /\ estimation_calls = 0
    /\ result = RegistrationResult(Identity4)
    /\ returned = NotReturned
    /\ mutex = Free
    /\ pc = [w \in Threads |-> "call"]

\* --------------------------------------------------- EvaluateRegistration
\* Lines 127-139, and the OpenMP body of the Evaluator, lines 41-96.

InitEvaluateRegistration ==
    /\ op = "EvaluateRegistration"
    /\ num_threads \in 1..NumThreads
    /\ source \in Clouds
    /\ target \in Clouds
    /\ max_correspondence_distance \in Distances
    /\ transformation \in Transformations
    /\ NoInit /\ NoEstimation /\ NoCorres /\ NoFeatures
    /\ DriverIdle
    /\ EvalIdle /\ FeatureIdle /\ InfoIdle /\ HistoryIdle /\ PRNGIdle

\* `PointCloud &pcd = source;`: pcd another name of the caller's cloud.
BoundByReference(original, copy) == copy

\* Lines 133, 154, 202, 297: `PointCloud pcd = source;` constructs a copy.
\* The caller's cloud after the copy has been worked on: as it was.
CopiedFrom(original, copy) == original

\* Lines 133-136: clone the source, transform the clone unless T is identity.
ClonedSource(src, T) == IF isIdentity(T) = FALSE THEN Transform(src, T) ELSE src

\* EvaluateRegistration as a function, its Evaluator run by one thread.
EvaluateRegistration(src, tgt, max_dist, T) ==
    GetRegistrationResultAndCorrespondences(ClonedSource(src, T), tgt, max_dist, T)

\* Lines 131-138 and 46-51: the clone, the result seeded with T, the early
\* return on max_correspondence_distance <= 0, else the fork of the team.
EvaluateRegistrationCall ==
    /\ op = "EvaluateRegistration"
    /\ AllAt("call")
    /\ pcd' = ClonedSource(source, transformation)
    /\ source' = CopiedFrom(source, pcd')
    /\ result' = RegistrationResult(transformation)
    /\ IF max_correspondence_distance <= 0
       THEN /\ returned' = result'
            /\ pc' = [w \in Threads |-> "done"]
       ELSE /\ returned' = returned
            /\ pc' = [w \in Threads |-> "for"]
    /\ effects' = effects
          \cup {"KDTreeFlann", "GetRegistrationResultAndCorrespondences"}
          \cup (IF isIdentity(transformation) = FALSE THEN {"Transform"} ELSE {})
          \cup (IF max_correspondence_distance <= 0 THEN {} ELSE {"omp parallel"})
    /\ UNCHANGED <<argVars, mutex, transformation, icp_i, itr, estimation_calls, evalVars,
                   featureVars, infoVars, trace, evaluator_runs, exhausted_start, loopHistory,
                   prngVars>>

\* Lines 62-72: thread w runs the next iteration of the omp for loop on its
\* private buffers.
SearchIteration(w) ==
    /\ op = "EvaluateRegistration"
    /\ pc[w] = "for"
    /\ next_i < Len(pcd)
    /\ LET acc == SearchStep([cs |-> correspondence_set_private[w],
                              e2 |-> error2_private[w]],
                             pcd, target, max_correspondence_distance, next_i)
       IN  /\ correspondence_set_private' =
                  [correspondence_set_private EXCEPT ![w] = acc.cs]
           /\ error2_private' = [error2_private EXCEPT ![w] = acc.e2]
    /\ next_i' = next_i + 1
    /\ UNCHANGED <<inputVars, pc, mutex, returned, result, driverVars, error2, featureVars, infoVars, historyVars,
                   prngVars>>

\* omp for nowait: a thread that finds no iteration left goes on to the
\* critical section without waiting for the others.
SearchLoopExit(w) ==
    /\ op = "EvaluateRegistration"
    /\ pc[w] = "for"
    /\ next_i >= Len(pcd)
    /\ pc' = [pc EXCEPT ![w] = "critical"]
    /\ UNCHANGED <<inputVars, mutex, returned, result, driverVars, evalVars, featureVars, infoVars, historyVars,
                   prngVars>>

\* Line 74: omp critical, entry.
MergeEnter(w) ==
    /\ op = "EvaluateRegistration"
    /\ pc[w] = "critical"
    /\ mutex = Free
    /\ mutex' = w
    /\ pc' = [pc EXCEPT ![w] = "merge"]
    /\ UNCHANGED <<inputVars, returned, result, driverVars, evalVars, featureVars, infoVars, historyVars,
                   prngVars>>

\* The merge assigning instead of appending.
MergedOverwrite(res, cs_private) == [res EXCEPT !.correspondence_set_ = cs_private]

\* Lines 77-80: the private pairs appended, in their order, to the result's.
Merged(res, cs_private) ==
    [res EXCEPT !.correspondence_set_ = res.correspondence_set_ \o cs_private]

\* Lines 76-82: the body of the critical section, and its exit.
Merge(w) ==
    /\ op = "EvaluateRegistration"
    /\ pc[w] = "merge"
    /\ mutex = w
    /\ result' = Merged(result, correspondence_set_private[w])
    /\ error2' = error2 + error2_private[w]
    /\ mutex' = Free
    /\ pc' = [pc EXCEPT ![w] = "joined"]
    /\ UNCHANGED <<inputVars, returned, driverVars, next_i, error2_private,
                   correspondence_set_private, featureVars, infoVars, historyVars,
                   prngVars>>

\* Lines 84-95: after the join, fitness_ and inlier_rmse_, and the return.
EvaluateRegistrationReturn ==
    /\ op = "EvaluateRegistration"
    /\ AllAt("joined")
    /\ result' = SetFitnessAndRMSE(result, error2, pcd)
    /\ returned' = result'
    /\ pc' = [w \in Threads |-> "done"]
    /\ UNCHANGED <<inputVars, mutex, driverVars, evalVars, featureVars, infoVars, historyVars,
                   prngVars>>

NextEvaluateRegistration ==
    \/ EvaluateRegistrationCall
    \/ \E w \in Threads : SearchIteration(w)
    \/ \E w \in Threads : SearchLoopExit(w)
    \/ \E w \in Threads : MergeEnter(w)
    \/ \E w \in Threads : Merge(w)
    \/ EvaluateRegistrationReturn

SpecEvaluate == InitEvaluateRegistration /\ [][NextEvaluateRegistration]_vars

\* The pairs the Evaluator has to find: (i, j) with j the hybrid k = 1
\* neighbour of the i-th point of the transformed source.
ExpectedPairs(src, tgt, max_dist) ==
    {<<i, SearchHybrid(tgt, src[i + 1], max_dist).indices[1]>> :
        i \in {k \in 0..(Len(src) - 1) : SearchHybrid(tgt, src[k + 1], max_dist).n > 0}}

EvaluatorRan ==
    /\ op = "EvaluateRegistration"
    /\ returned # NotReturned
    /\ max_correspondence_distance > 0

\* C5: when EvaluateRegistration returns with max_dist > 0, for every team
\* size and interleaving, the merged correspondence_set_ holds each expected
\* pair exactly once and nothing else (no source index twice), error2 is the
\* sum of the squared distances of exactly those pairs, and fitness_ is
\* |correspondence_set_| / |source|, within [0, 1].
C5_MergeExactlyOnce ==
    EvaluatorRan =>
        LET cs == returned.correspondence_set_
            src == ClonedSource(source, transformation)
        IN  /\ Range(cs) = ExpectedPairs(src, target, max_correspondence_distance)
            /\ Cardinality(Range(cs)) = Len(cs)
            /\ Cardinality({c[1] : c \in Range(cs)}) = Len(cs)
            /\ error2 = SumSeq([k \in 1..Len(cs) |->
                                 squaredNorm(src[cs[k][1] + 1], target[cs[k][2] + 1])])
            /\ IF cs = <<>>
               THEN returned.fitness_ = RatZero
               ELSE /\ returned.fitness_ = Rat(Len(cs), Len(source))
                    /\ Len(cs) <= Len(source)

\* C5 witness: two threads each merged a pair of their own, in the order
\* that puts the higher source index first.
C5_Witness ==
    /\ EvaluatorRan
    /\ num_threads >= 2
    /\ \A w \in 0..1 : correspondence_set_private[w] # <<>>
    /\ Len(returned.correspondence_set_) >= 2
    /\ returned.correspondence_set_[1][1] > returned.correspondence_set_[2][1]

\* ----------------------------------------------- TransformationEstimation
\* The estimation is a collaborator passed in by the caller: a pure function
\* of (source, target, corres).  Three of them are explored.

Translation(t) ==
    <<<<1, 0, 0, t[1]>>, <<0, 1, 0, t[2]>>, <<0, 0, 1, t[3]>>, <<0, 0, 0, 1>>>>

\* The sum over the pairs of cs of coordinate k of target - source.
Residual(src, tgt, cs, k) ==
    SumSeq([n \in 1..Len(cs) |-> tgt[cs[n][2] + 1][k] - src[cs[n][1] + 1][k]])

\* "MeanShift": the translation by the mean residual of the pairs, rounded
\* down (the identity on no pair and on exactly matching pairs).
\* "TransX", "RotZ": estimations that answer one transformation whatever the
\* pairs.
ComputeTransformation(est, src, tgt, cs) ==
    CASE est = "MeanShift" ->
            IF cs = <<>> THEN Identity4
            ELSE Translation([k \in 1..3 |-> Residual(src, tgt, cs, k) \div Len(cs)])
      [] est = "TransX" -> TransX
      [] est = "RotZ" -> RotZ

Estimations == {"MeanShift", "TransX", "RotZ"}

\* --------------------------------------------------------- RegistrationICP
\* Lines 141-178.

\* Largest ICPConvergenceCriteria::max_iteration_ explored.
MaxICPIteration == 2

\* relative_fitness_ and relative_rmse_: 0 and 1/2.
Thresholds == {Rat(0, 1), Rat(1, 2)}

ICPConvergenceCriteria ==
    [max_iteration_ : (-1)..MaxICPIteration,
     relative_fitness_ : Thresholds,
     relative_rmse_ : Thresholds]

InitRegistrationICP ==
    /\ op = "RegistrationICP"
    /\ num_threads = 1
    /\ source \in Clouds
    /\ target \in Clouds
    /\ max_correspondence_distance \in Distances
    /\ init \in Transformations
    /\ estimation \in Estimations
    /\ criteria \in ICPConvergenceCriteria
    /\ transformation = Identity4
    /\ NoCorres /\ NoFeatures
    /\ DriverIdle
    /\ EvalIdle /\ FeatureIdle /\ InfoIdle /\ HistoryIdle /\ PRNGIdle

\* Lines 148-160: the early return on max_correspondence_distance <= 0, else
\* the clone moved by init and the first score.
RegistrationICPCall ==
    /\ op = "RegistrationICP"
    /\ pc[0] = "call"
    /\ IF max_correspondence_distance <= 0
       THEN /\ returned' = RegistrationResult(init)
            /\ pc' = [pc EXCEPT ![0] = "done"]
            /\ UNCHANGED <<source, transformation, pcd, result, effects>>
       ELSE /\ transformation' = init
            /\ pcd' = ClonedSource(source, init)
            /\ source' = CopiedFrom(source, pcd')
            /\ result' = GetRegistrationResultAndCorrespondences(
                             pcd', target, max_correspondence_distance, transformation')
            /\ pc' = [pc EXCEPT ![0] = "for"]
            /\ effects' = effects
                  \cup {"KDTreeFlann", "GetRegistrationResultAndCorrespondences"}
                  \cup (IF isIdentity(init) = FALSE THEN {"Transform"} ELSE {})
            /\ UNCHANGED returned
    /\ UNCHANGED <<argVars, mutex, icp_i, itr, estimation_calls, evalVars, featureVars,
                   infoVars, trace, evaluator_runs, exhausted_start, loopHistory,
                   prngVars>>

\* Composed with the factors exchanged (transformation * update).
ComposedRight(update, T) == MatMul(T, update)

\* Line 166: the cumulative transformation after an update.
Composed(update, T) == MatMul(update, T)

\* Converged with the second test taken on the wrong pair of fields
\* (backup.fitness_ against result.inlier_rmse_).
ConvergedMixedFields(backup, res, crit) ==
    /\ AbsDiffLess(backup.fitness_, res.fitness_, crit.relative_fitness_)
    /\ SqrtAbsDiffLess(Rat(backup.fitness_.num * backup.fitness_.num,
                           backup.fitness_.den * backup.fitness_.den),
                       res.inlier_rmse_, crit.relative_rmse_)

\* Line 171: std::abs(backup.fitness_ - result.fitness_) < relative_fitness_.
FitnessTest(backup, res, crit) ==
    AbsDiffLess(backup.fitness_, res.fitness_, crit.relative_fitness_)

\* Lines 172-173: std::abs(backup.inlier_rmse_ - result.inlier_rmse_) <
\* relative_rmse_.
RMSETest(backup, res, crit) ==
    SqrtAbsDiffLess(backup.inlier_rmse_, res.inlier_rmse_, crit.relative_rmse_)

\* The test with || for &&.
ConvergedEither(backup, res, crit) ==
    \/ AbsDiffLess(backup.fitness_, res.fitness_, crit.relative_fitness_)
    \/ SqrtAbsDiffLess(backup.inlier_rmse_, res.inlier_rmse_, crit.relative_rmse_)

\* Lines 171-173: the test that leaves the loop.
Converged(backup, res, crit) ==
    /\ AbsDiffLess(backup.fitness_, res.fitness_, crit.relative_fitness_)
    /\ SqrtAbsDiffLess(backup.inlier_rmse_, res.inlier_rmse_, crit.relative_rmse_)

\* Lines 161-176: one iteration of the loop: estimate, compose, move the
\* clone, re-score, and break on convergence.
RegistrationICPIteration ==
    /\ op = "RegistrationICP"
    /\ pc[0] = "for"
    /\ icp_i < criteria.max_iteration_
    /\ LET update == ComputeTransformation(estimation, pcd, target,
                                           result.correspondence_set_)
           backup == result
       IN  /\ transformation' = Composed(update, transformation)
           /\ pcd' = Transform(pcd, update)
           /\ source' = CopiedFrom(source, pcd')
           /\ result' = GetRegistrationResultAndCorrespondences(
                            pcd', target, max_correspondence_distance, transformation')
           /\ last_tests' = [fitness |-> FitnessTest(backup, result', criteria),
                              rmse |-> RMSETest(backup, result', criteria)]
           /\ IF Converged(backup, result', criteria)
              THEN pc' = [pc EXCEPT ![0] = "break"] /\ icp_i' = icp_i
              ELSE pc' = pc /\ icp_i' = icp_i + 1
    /\ estimation_calls' = estimation_calls + 1
    /\ effects' = effects \cup {"ComputeTransformation", "Transform",
                                "GetRegistrationResultAndCorrespondences"}
    /\ UNCHANGED <<argVars, mutex, returned, itr, evalVars, featureVars, infoVars,
                   trace, evaluator_runs, exhausted_start, rand_calls, score_calls,
                   hypotheses,
                   prngVars>>

\* Line 177: the return, after a break or when i reaches max_iteration_.
RegistrationICPReturn ==
    /\ op = "RegistrationICP"
    /\ \/ pc[0] = "break"
       \/ pc[0] = "for" /\ icp_i >= criteria.max_iteration_
    /\ returned' = result
    /\ pc' = [pc EXCEPT ![0] = "done"]
    /\ UNCHANGED <<inputVars, mutex, result, driverVars, evalVars, featureVars, infoVars, historyVars,
                   prngVars>>

NextRegistrationICP ==
    \/ RegistrationICPCall
    \/ RegistrationICPIteration
    \/ RegistrationICPReturn

SpecICP == InitRegistrationICP /\ [][NextRegistrationICP]_vars

\* The pairs (k, k) of a cloud matched with itself.
SelfPairs(cloud) == [k \in 1..Len(cloud) |-> <<k - 1, k - 1>>]

\* The case of C7: source = target, non-empty, init = I, max_dist > 0, an
\* estimation that answers the identity on exactly matching pairs, and
\* max_iteration_ >= 1.
SelfToSelf ==
    /\ op = "RegistrationICP"
    /\ source = target
    /\ source # <<>>
    /\ init = Identity4
    /\ max_correspondence_distance > 0
    /\ ComputeTransformation(estimation, source, target, SelfPairs(source)) = Identity4
    /\ criteria.max_iteration_ >= 1

\* C7 as stated: self-to-self ICP returns after exactly one estimation call
\* whatever relative_fitness_ and relative_rmse_ are.
C7_AnyThreshold ==
    (SelfToSelf /\ returned # NotReturned) => estimation_calls = 1

\* C7, amended: self-to-self ICP with relative_fitness_ > 0 and
\* relative_rmse_ > 0 leaves the loop by the break at the end of its first
\* iteration: never a second estimation call, and exactly one at the return.
C7_ImmediateTermination ==
    (/\ SelfToSelf
     /\ criteria.relative_fitness_.num > 0
     /\ criteria.relative_rmse_.num > 0)
    => /\ estimation_calls <= 1
       /\ estimation_calls = 1 => pc[0] \in {"break", "done"} /\ icp_i = 0
       /\ returned # NotReturned => estimation_calls = 1

\* C7 witness: a self-to-self run that could have gone on (max_iteration_ of
\* 2) has returned after one estimation call.
C7_Witness ==
    /\ SelfToSelf
    /\ criteria.relative_fitness_.num > 0
    /\ criteria.relative_rmse_.num > 0
    /\ criteria.max_iteration_ >= 2
    /\ Len(source) >= 2
    /\ returned # NotReturned
    /\ estimation_calls = 1
    /\ returned.fitness_ = Rat(Len(source), Len(source))

\* Two results that differ at most in the order of their pairs.
SameEvaluation(r1, r2) ==
    /\ r1.transformation_ = r2.transformation_
    /\ Range(r1.correspondence_set_) = Range(r2.correspondence_set_)
    /\ Len(r1.correspondence_set_) = Len(r2.correspondence_set_)
    /\ r1.fitness_ = r2.fitness_
    /\ r1.inlier_rmse_ = r2.inlier_rmse_

\* C8: in RegistrationICP with max_dist > 0, whenever a score has been taken
\* pcd is the source moved by the cumulative transformation and the result
\* carries that transformation; the returned result is what
\* EvaluateRegistration yields at the returned transformation.
C8_CumulativeTransformation ==
    (op = "RegistrationICP" /\ max_correspondence_distance > 0) =>
        /\ pc[0] \in {"for", "break", "done"} =>
              /\ pcd = Transform(source, transformation)
              /\ result.transformation_ = transformation
        /\ returned # NotReturned =>
              SameEvaluation(returned,
                  EvaluateRegistration(source, target, max_correspondence_distance,
                                       returned.transformation_))

\* C8 witness: a run of two updates on a non-identity init has returned a
\* result with correspondences at a transformation that is none of the
\* three elementary ones.
C8_Witness ==
    /\ op = "RegistrationICP"
    /\ max_correspondence_distance > 0
    /\ init # Identity4
    /\ returned # NotReturned
    /\ estimation_calls >= 2
    /\ returned.transformation_ \notin Transformations
    /\ returned.correspondence_set_ # <<>>

\* ----------------------------------- RegistrationRANSACBasedOnCorrespondence
\* Lines 98-123 and 180-216.

\* Largest number of pairs of a caller-supplied correspondence set.
MaxCorres == 3
\* Largest RANSACConvergenceCriteria::max_iteration_ explored.
MaxRansacIteration == 3
\* Largest RANSACConvergenceCriteria::max_validation_ explored.
MaxValidation == 2

\* The pairs the caller's correspondence sets are cut from.
CorresPool == <<<<0, 0>>, <<1, 1>>, <<1, 0>>, <<0, 0>>, <<2, 2>>, <<0, 1>>, <<0, 0>>,
                <<3, 3>>>>

\* The pairs of the pool that index points of both clouds.
ValidCorres(src, tgt) ==
    SelectSeq(CorresPool, LAMBDA c : c[1] < Len(src) /\ c[2] < Len(tgt))

\* The caller's correspondence sets for given clouds: the first n valid
\* pairs, n <= MaxCorres.
CorrespondenceSets(src, tgt) ==
    {SubSeq(ValidCorres(src, tgt), 1, n) :
        n \in 0..Min(MaxCorres, Len(ValidCorres(src, tgt)))}

\* ransac_n: one invalid value (< 3) and one valid.
RansacNs == {2, 3}

RANSACConvergenceCriteria ==
    [max_iteration_ : 0..MaxRansacIteration, max_validation_ : 0..MaxValidation]

\* The same with a negative value of each cap.
RANSACConvergenceCriteriaSigned ==
    [max_iteration_ : (-1)..MaxRansacIteration, max_validation_ : (-1)..MaxValidation]

\* The loop bound without max_validation_.
LoopBoundIterationOnly(crit) == crit.max_iteration_

\* Lines 196-197: the loop runs while itr < max_iteration_ && itr <
\* max_validation_.
LoopBound(crit) == Min(crit.max_iteration_, crit.max_validation_)

\* Lines 107-114: the loop over corres on acc = [good, error2], from the
\* k-th pair on.
RECURSIVE CountGood(_, _, _, _, _, _)
CountGood(acc, src, tgt, cs, max_dis2, k) ==
    IF k > Len(cs) THEN acc
    ELSE LET dis2 == squaredNorm(src[cs[k][1] + 1], tgt[cs[k][2] + 1])
         IN  CountGood(IF dis2 < max_dis2
                       THEN [good |-> acc.good + 1, error2 |-> acc.error2 + dis2]
                       ELSE acc,
                       src, tgt, cs, max_dis2, k + 1)

\* Lines 98-123.  The result's correspondence_set_ is never written.
EvaluateRANSACBasedOnCorrespondence(src, tgt, cs, max_dist, T) ==
    LET acc == CountGood([good |-> 0, error2 |-> 0], src, tgt, cs,
                         max_dist * max_dist, 1)
    IN  IF acc.good = 0
        THEN [RegistrationResult(T) EXCEPT !.fitness_ = RatZero,
                                           !.inlier_rmse_ = RatZero]
        ELSE [RegistrationResult(T) EXCEPT !.fitness_ = Rat(acc.good, Len(cs)),
                                           !.inlier_rmse_ = Rat(acc.error2, acc.good)]

InitRANSACBasedOnCorrespondence ==
    /\ op = "RegistrationRANSACBasedOnCorrespondence"
    /\ num_threads = 1
    /\ source \in Clouds
    /\ target \in Clouds
    /\ corres \in CorrespondenceSets(source, target)
    /\ max_correspondence_distance \in Distances
    /\ estimation \in Estimations
    /\ ransac_n \in RansacNs
    /\ criteria \in RANSACConvergenceCriteriaSigned
    /\ transformation = Identity4
    /\ NoInit /\ NoFeatures
    /\ DriverIdle
    /\ EvalIdle /\ FeatureIdle /\ InfoIdle /\ HistoryIdle /\ PRNGIdle

\* The test with max_correspondence_distance < 0.0 for <= 0.0.
InvalidArgumentsStrictDistance(n, cs, max_dist) == n < 3 \/ Len(cs) < n \/ max_dist < 0

\* The test without its middle term.
InvalidArgumentsNoSize(n, cs, max_dist) == n < 3 \/ max_dist <= 0

\* Lines 188-189.
InvalidArguments(n, cs, max_dist) == n < 3 \/ Len(cs) < n \/ max_dist <= 0

\* Lines 188-195: the default result on an invalid argument, else the locals.
RANSACBasedOnCorrespondenceCall ==
    /\ op = "RegistrationRANSACBasedOnCorrespondence"
    /\ pc[0] = "call"
    /\ IF InvalidArguments(ransac_n, corres, max_correspondence_distance)
       THEN /\ returned' = RegistrationResult(Identity4)
            /\ pc' = [pc EXCEPT ![0] = "done"]
            /\ effects' = effects
       ELSE /\ returned' = returned
            /\ pc' = [pc EXCEPT ![0] = "for"]
            /\ effects' = effects \cup {"srand"}
    /\ result' = RegistrationResult(Identity4)
    /\ UNCHANGED <<inputVars, mutex, driverVars, evalVars, featureVars, infoVars,
                   trace, evaluator_runs, exhausted_start, loopHistory,
                   prngVars>>

\* Lines 196-212: one iteration: ransac_n pairs drawn with rand() % size,
\* the fit, the clone moved by it, the score on corres, best-of-N.
RANSACBasedOnCorrespondenceIteration ==
    /\ op = "RegistrationRANSACBasedOnCorrespondence"
    /\ pc[0] = "for"
    /\ itr < LoopBound(criteria)
    /\ \E drawn \in [1..ransac_n -> 0..(Len(corres) - 1)] :
          LET ransac_corres == [j \in 1..ransac_n |-> corres[drawn[j] + 1]]
              T == ComputeTransformation(estimation, source, target, ransac_corres)
              moved == Transform(source, T)
              this_result == EvaluateRANSACBasedOnCorrespondence(
                                 moved, target, corres, max_correspondence_distance, T)
          IN  /\ transformation' = T
              /\ pcd' = moved
              /\ source' = CopiedFrom(source, pcd')
              /\ result' = IF Better(this_result, result) THEN this_result ELSE result
              /\ hypotheses' = hypotheses \cup {this_result}
    /\ rand_calls' = rand_calls + ransac_n
    /\ score_calls' = score_calls + 1
    /\ itr' = itr + 1
    /\ estimation_calls' = estimation_calls + 1
    /\ effects' = effects \cup {"rand", "ComputeTransformation", "Transform",
                                "EvaluateRANSACBasedOnCorrespondence"}
    /\ UNCHANGED <<argVars, pc, mutex, returned, icp_i, evalVars, featureVars, infoVars,
                   trace, evaluator_runs, exhausted_start, last_tests,
                   prngVars>>

\* Lines 213-215.
RANSACBasedOnCorrespondenceReturn ==
    /\ op = "RegistrationRANSACBasedOnCorrespondence"
    /\ pc[0] = "for"
    /\ ~(itr < LoopBound(criteria))
    /\ returned' = result
    /\ pc' = [pc EXCEPT ![0] = "done"]
    /\ UNCHANGED <<inputVars, mutex, result, driverVars, evalVars, featureVars, infoVars, historyVars,
                   prngVars>>

NextRANSACBasedOnCorrespondence ==
    \/ RANSACBasedOnCorrespondenceCall
    \/ RANSACBasedOnCorrespondenceIteration
    \/ RANSACBasedOnCorrespondenceReturn

SpecCorrespondence ==
    InitRANSACBasedOnCorrespondence /\ [][NextRANSACBasedOnCorrespondence]_vars

\* C3: every returned RegistrationResult has an empty correspondence_set_
\* if and only if its fitness_ is 0.
C3_EmptyIffZeroFitness ==
    returned # NotReturned =>
        (returned.correspondence_set_ = <<>> <=> RatIsZero(returned.fitness_))

\* ---------------------------------- RegistrationRANSACBasedOnFeatureMatching
\* Lines 218-335.

\* The descriptor of a point (one row: D = 1).
Descriptor(p) == p[1] + 2 * p[2] + 4 * p[3]

\* Feature::data_ of a cloud: column k is the descriptor of point k.
Feature(cloud) == [k \in 1..Len(cloud) |-> Descriptor(cloud[k])]

\* KDTreeFlann::SearchKNN(query, 1, indices, dists) on a feature matrix: the
\* column nearest to the query (the lowest index among equally near ones),
\* n = 0 on a matrix without columns.
SearchKNN(feature, query) ==
    IF feature = <<>>
    THEN [n |-> 0, indices |-> <<>>]
    ELSE LET best == CHOOSE j \in 0..(Len(feature) - 1) :
                        \A j2 \in 0..(Len(feature) - 1) :
                            \/ Abs(feature[j + 1] - query) < Abs(feature[j2 + 1] - query)
                            \/ /\ Abs(feature[j + 1] - query) = Abs(feature[j2 + 1] - query)
                               /\ j <= j2
         IN  [n |-> 1, indices |-> <<best>>]

\* The checker lists explored: a checker is its require_pointcloud_alignment_
\* flag; what Check answers is the checker's own business (any answer).
CheckerLists ==
    {<<>>,
     <<[require_pointcloud_alignment_ |-> FALSE], [require_pointcloud_alignment_ |-> TRUE]>>}

\* Lines 263-274: the pair sampled for source index s.
SampledPair(s, src_feature, tgt_feature) ==
    LET hit == SearchKNN(tgt_feature, src_feature[s + 1])
    IN  IF hit.n = 0 THEN <<s, 0>> ELSE <<s, hit.indices[1]>>

\* Lines 275-283 (alignment = FALSE) and 287-295 (alignment = TRUE): the
\* checkers of one kind all answer true; verdicts[k] is the answer of
\* checker k.
ChecksPass(chk, verdicts, alignment) ==
    \A k \in 1..Len(chk) :
        chk[k].require_pointcloud_alignment_ = alignment => verdicts[k]

\* One call made by an iteration: the callee, and for a Check the index of
\* the checker in the list and its answer.
Called(callee, k, answer) == [call |-> callee, checker |-> k, answer |-> answer]

\* The loop calling every checker whatever its flag.
RECURSIVE CheckerCallsAll(_, _, _, _)
CheckerCallsAll(chk, verdicts, alignment, k) ==
    IF k > Len(chk) THEN <<>>
    ELSE IF verdicts[k] = FALSE THEN <<Called("Check", k, FALSE)>>
    ELSE <<Called("Check", k, TRUE)>> \o CheckerCallsAll(chk, verdicts, alignment, k + 1)

\* Lines 276-283 (alignment = FALSE) and 288-295 (alignment = TRUE): the
\* calls of Check the loop over the checkers makes, from checker k on: only
\* the checkers of the given kind (the && short-circuits), up to the first
\* that answers false (break).
RECURSIVE CheckerCalls(_, _, _, _)
CheckerCalls(chk, verdicts, alignment, k) ==
    IF k > Len(chk) THEN <<>>
    ELSE IF chk[k].require_pointcloud_alignment_ # alignment
    THEN CheckerCalls(chk, verdicts, alignment, k + 1)
    ELSE IF verdicts[k] = FALSE THEN <<Called("Check", k, FALSE)>>
    ELSE <<Called("Check", k, TRUE)>> \o CheckerCalls(chk, verdicts, alignment, k + 1)

\* check == false after the loop.
Refused(calls) == \E n \in 1..Len(calls) : calls[n].answer = FALSE

\* Lines 275-300: the calls of one iteration after its sampling, in program
\* order: `continue` after a refusal before the fit, after a refusal after
\* it, else the clone moved and scored.
IterationCalls(chk, verdicts) ==
    LET before == CheckerCalls(chk, verdicts, FALSE, 1)
        after == CheckerCalls(chk, verdicts, TRUE, 1)
    IN  IF Refused(before) THEN before
        ELSE before \o <<Called("ComputeTransformation", 0, TRUE)>> \o after
             \o (IF Refused(after) THEN <<>>
                 ELSE <<Called("Transform", 0, TRUE),
                        Called("GetRegistrationResultAndCorrespondences", 0, TRUE)>>)

\* Best-of-N without the test: the candidate always replaces the incumbent.
BestOfLast(cand, best) == cand

\* Lines 302-306 and 323-327: best-of-N.
BestOf(cand, best) == IF Better(cand, best) THEN cand ELSE best

\* The read of the flag dropped: every iteration runs.
ReadFinishedNever(memory, view) == {FALSE}

\* Line 258: what the unsynchronized read of finished_validation can give a
\* thread: the value in memory, or the value of its last flush.
ReadFinished(memory, view) == {memory, view}

\* Lines 312-313.
FinishedAfter(total, crit, finished) ==
    IF total >= crit.max_validation_ THEN TRUE ELSE finished

Access(variable, kind, w) ==
    [variable |-> variable, kind |-> kind, locked |-> (mutex = w)]

InitRANSACBasedOnFeatureMatching ==
    /\ op = "RegistrationRANSACBasedOnFeatureMatching"
    /\ num_threads \in 1..NumThreads
    /\ source = SubSeq(PointPool, 1, 2)
    /\ target \in {SubSeq(PointPool, 1, 2), SubSeq(PointPool, 2, 3)}
    /\ source_feature = Feature(source)
    /\ target_feature \in {Feature(target), <<>>}
    /\ max_correspondence_distance \in {0, 1}
    /\ estimation \in Estimations
    /\ ransac_n \in RansacNs
    /\ checkers \in CheckerLists
    /\ criteria \in RANSACConvergenceCriteria
    /\ transformation = Identity4
    /\ corres = <<>>
    /\ NoInit
    /\ DriverIdle
    /\ EvalIdle /\ FeatureIdle /\ InfoIdle /\ HistoryIdle /\ PRNGIdle

\* Lines 229-253: the default result on an invalid argument, else the shared
\* locals and the fork of the team.
RANSACBasedOnFeatureMatchingCall ==
    /\ op = "RegistrationRANSACBasedOnFeatureMatching"
    /\ AllAt("call")
    /\ IF ransac_n < 3 \/ max_correspondence_distance <= 0
       THEN /\ returned' = RegistrationResult(Identity4)
            /\ pc' = [w \in Threads |-> "done"]
            /\ effects' = effects
       ELSE /\ returned' = returned
            /\ pc' = [w \in Threads |-> "for"]
            /\ effects' = effects \cup {"omp parallel", "KDTreeFlann", "srand"}
    /\ result' = RegistrationResult(Identity4)
    /\ UNCHANGED <<inputVars, mutex, driverVars, evalVars, featureVars, infoVars,
                   trace, evaluator_runs, exhausted_start, loopHistory,
                   prngVars>>

\* Lines 257-306: thread w is handed the next iteration.  It reads
\* finished_validation outside any critical section; on true the iteration
\* does nothing.  Else: the sampling, the checkers before the fit, the fit,
\* the checkers after it, the score of the moved clone and best-of-N on the
\* thread's own best; an iteration a checker refuses ends there (continue),
\* whatever was sampled.
\* All of it but the read of the flag works on the thread's own data.
Iteration(w) ==
    /\ op = "RegistrationRANSACBasedOnFeatureMatching"
    /\ pc[w] = "for"
    /\ next_itr < criteria.max_iteration_
    /\ next_itr' = next_itr + 1
    /\ accesses' = accesses \cup {Access("finished_validation", "read", w)}
    /\ \E seen \in ReadFinished(finished_validation, finished_view[w]) :
          /\ finished_view' = [finished_view EXCEPT ![w] = seen]
          /\ IF seen
             THEN /\ pc' = pc
                  /\ trace' = [trace EXCEPT ![w] = <<>>]
                  /\ UNCHANGED <<source, result_private, scored, effects, evaluator_runs,
                                 exhausted_start>>
             ELSE \E verdicts \in [1..Len(checkers) -> BOOLEAN] :
                     LET calls == IterationCalls(checkers, verdicts)
                     IN  /\ trace' = [trace EXCEPT ![w] = calls]
                         /\ effects' = effects \cup {"rand", "SearchKNN"}
                                           \cup {c.call : c \in Range(calls)}
                         /\ exhausted_start' =
                                (exhausted_start
                                    \/ total_validation >= criteria.max_validation_)
                         /\ IF /\ ChecksPass(checkers, verdicts, FALSE)
                               /\ ChecksPass(checkers, verdicts, TRUE)
                            THEN \E drawn \in [1..ransac_n -> 0..(Len(source) - 1)] :
                                    LET ransac_corres ==
                                            [j \in 1..ransac_n |->
                                                SampledPair(drawn[j], source_feature,
                                                            target_feature)]
                                        T == ComputeTransformation(estimation, source,
                                                                   target, ransac_corres)
                                        this_result ==
                                            GetRegistrationResultAndCorrespondences(
                                                Transform(source, T), target,
                                                max_correspondence_distance, T)
                                    IN  /\ source' = CopiedFrom(source, Transform(source, T))
                                        /\ result_private' =
                                               [result_private EXCEPT
                                                   ![w] = BestOf(this_result, @)]
                                        /\ scored' = scored \cup
                                               {[fitness_ |-> this_result.fitness_,
                                                 inlier_rmse_ |-> this_result.inlier_rmse_]}
                                        /\ evaluator_runs' = evaluator_runs + 1
                                        /\ pc' = [pc EXCEPT ![w] = "critical"]
                            ELSE /\ pc' = pc
                                 /\ UNCHANGED <<source, result_private, scored,
                                                evaluator_runs>>
    /\ UNCHANGED <<argVars, mutex, returned, result, driverVars, evalVars,
                   total_validation, finished_validation, late_validations, infoVars,
                   loopHistory,
                   prngVars>>

\* Line 308: omp critical, entry.
CountEnter(w) ==
    /\ op = "RegistrationRANSACBasedOnFeatureMatching"
    /\ pc[w] = "critical"
    /\ mutex = Free
    /\ mutex' = w
    /\ pc' = [pc EXCEPT ![w] = "count"]
    /\ UNCHANGED <<inputVars, returned, result, driverVars, evalVars, featureVars,
                   infoVars, historyVars,
                   prngVars>>

\* Lines 309-315: the validation is counted, the flag set when the count
\* reaches max_validation_, and the critical section left.
CountValidation(w) ==
    /\ op = "RegistrationRANSACBasedOnFeatureMatching"
    /\ pc[w] = "count"
    /\ mutex = w
    /\ total_validation' = total_validation + 1
    /\ finished_validation' =
          FinishedAfter(total_validation', criteria, finished_validation)
    /\ finished_view' = [finished_view EXCEPT ![w] = finished_validation']
    /\ late_validations' =
          [late_validations EXCEPT ![w] = IF finished_validation THEN @ + 1 ELSE @]
    /\ accesses' = accesses \cup
          ({Access("total_validation", "read", w), Access("total_validation", "write", w)}
           \cup (IF finished_validation' # finished_validation \/ total_validation' >= criteria.max_validation_
                 THEN {Access("finished_validation", "write", w)} ELSE {}))
    /\ mutex' = Free
    /\ pc' = [pc EXCEPT ![w] = "for"]
    /\ trace' = [trace EXCEPT ![w] = Append(@, Called("total_validation++", 0, TRUE))]
    /\ UNCHANGED <<inputVars, returned, result, driverVars, evalVars, next_itr,
                   result_private, scored, infoVars, effects, evaluator_runs,
                   exhausted_start, loopHistory,
                   prngVars>>

\* Line 320: omp for nowait: a thread that finds no iteration left goes on,
\* without waiting for the others, to the critical section and enters it.
\* Its last iteration is over: its record is dropped.
ReduceEnter(w) ==
    /\ op = "RegistrationRANSACBasedOnFeatureMatching"
    /\ pc[w] = "for"
    /\ next_itr >= criteria.max_iteration_
    /\ mutex = Free
    /\ mutex' = w
    /\ pc' = [pc EXCEPT ![w] = "reduce"]
    /\ trace' = [trace EXCEPT ![w] = <<>>]
    /\ UNCHANGED <<inputVars, returned, result, driverVars, evalVars, featureVars,
                   infoVars, effects, evaluator_runs, exhausted_start, loopHistory,
                   prngVars>>

\* Lines 321-329: the thread's best folded into the shared result.
Reduce(w) ==
    /\ op = "RegistrationRANSACBasedOnFeatureMatching"
    /\ pc[w] = "reduce"
    /\ mutex = w
    /\ result' = BestOf(result_private[w], result)
    /\ mutex' = Free
    /\ pc' = [pc EXCEPT ![w] = "joined"]
    /\ UNCHANGED <<inputVars, returned, driverVars, evalVars, featureVars, infoVars, historyVars,
                   prngVars>>

\* Lines 330-334: the join and the return.
RANSACBasedOnFeatureMatchingReturn ==
    /\ op = "RegistrationRANSACBasedOnFeatureMatching"
    /\ AllAt("joined")
    /\ returned' = result
    /\ pc' = [w \in Threads |-> "done"]
    /\ UNCHANGED <<inputVars, mutex, result, driverVars, evalVars, featureVars,
                   infoVars, historyVars,
                   prngVars>>

NextRANSACBasedOnFeatureMatching ==
    \/ RANSACBasedOnFeatureMatchingCall
    \/ \E w \in Threads : Iteration(w)
    \/ \E w \in Threads : CountEnter(w)
    \/ \E w \in Threads : CountValidation(w)
    \/ \E w \in Threads : ReduceEnter(w)
    \/ \E w \in Threads : Reduce(w)
    \/ RANSACBasedOnFeatureMatchingReturn

SpecFeature ==
    InitRANSACBasedOnFeatureMatching /\ [][NextRANSACBasedOnFeatureMatching]_vars

FeatureMatchingRuns ==
    /\ op = "RegistrationRANSACBasedOnFeatureMatching"
    /\ ransac_n >= 3
    /\ max_correspondence_distance > 0

\* C1: with max_validation_ >= 1, in every state of every interleaving
\* (hence at the join) total_validation <= max_validation_ + W for a team of
\* W threads, and no thread has counted more than one validation with
\* finished_validation already set.
C1_BoundedOvershoot ==
    (FeatureMatchingRuns /\ criteria.max_validation_ >= 1) =>
        /\ total_validation <= criteria.max_validation_ + num_threads
        /\ \A w \in Threads : late_validations[w] <= 1

\* C1 witness: after the join the budget is overrun, by a validation that
\* was counted with the flag already set.
C1_Witness ==
    /\ FeatureMatchingRuns
    /\ criteria.max_validation_ >= 1
    /\ returned # NotReturned
    /\ total_validation > criteria.max_validation_
    /\ \E w \in Threads : late_validations[w] = 1

\* r is at least as good as the scored hypothesis h: no smaller fitness_,
\* and at equal fitness_ no larger inlier_rmse_.
AtLeastAsGood(r, h) ==
    /\ ~RatLess(r.fitness_, h.fitness_)
    /\ RatEq(r.fitness_, h.fitness_) => ~RatLess(h.inlier_rmse_, r.inlier_rmse_)

\* C4: the result returned after the join is at least as good as every
\* hypothesis any thread scored, for every interleaving and team size, and
\* at most one thread at a time is folding its best into the shared result.
C4_BestOfAllScored ==
    FeatureMatchingRuns =>
        /\ returned # NotReturned => \A h \in scored : AtLeastAsGood(returned, h)
        /\ Cardinality({w \in Threads : pc[w] = "reduce"}) <= 1

\* C4 witness: two threads have scored hypotheses of different fitness_, the
\* better one with correspondences, and the call has returned.
C4_Witness ==
    /\ FeatureMatchingRuns
    /\ num_threads >= 2
    /\ returned # NotReturned
    /\ result_private[0].fitness_ # result_private[1].fitness_
    /\ returned.correspondence_set_ # <<>>
    /\ Cardinality(scored) >= 2

\* C9: every access of a thread to total_validation and to
\* finished_validation is made holding the lock of the critical section.
C9_AccessesUnderLock == \A a \in accesses : a.locked

\* The accesses that are made under the lock: those to total_validation, and
\* the writes of finished_validation.
WritesUnderLock ==
    \A a \in accesses :
        (a.variable = "total_validation" \/ a.kind = "write") => a.locked

\* -------------------------------- GetInformationMatrixFromRegistrationResult
\* Lines 337-385.

\* Eigen::Matrix6d::Identity().
Identity6 == [r \in 1..6 |-> [c \in 1..6 |-> IF r = c THEN 1 ELSE 0]]

Zero6 == [r \in 1..6 |-> [c \in 1..6 |-> 0]]

Add6(A, B) == [r \in 1..6 |-> [c \in 1..6 |-> A[r][c] + B[r][c]]]

\* G_r_private * G_r_private.transpose()
Outer6(g) == [r \in 1..6 |-> [c \in 1..6 |-> g[r] * g[c]]]

\* Lines 356-373: what one correspondence with target point p adds to
\* GTG_private: the three rows G_r_private takes, each times its transpose.
Contribution(p) ==
    LET x == p[1]
        y == p[2]
        z == p[3]
    IN  Add6(Add6(Outer6(<<1, 0, 0, 0, 2 * z, -2 * y>>),
                  Outer6(<<0, 1, 0, -2 * z, 0, 2 * x>>)),
             Outer6(<<0, 0, 1, 2 * y, -2 * x, 0>>))

\* The result passed in is a RegistrationResult whose correspondence_set_ is
\* `corres`.
InitInformationMatrix ==
    /\ op = "GetInformationMatrixFromRegistrationResult"
    /\ num_threads \in 1..NumThreads
    /\ source \in Clouds
    /\ target \in Clouds
    /\ corres \in CorrespondenceSets(source, target)
    /\ max_correspondence_distance = 0
    /\ ransac_n = 0
    /\ transformation = Identity4
    /\ NoInit /\ NoEstimation /\ NoFeatures
    /\ DriverIdle
    /\ EvalIdle /\ FeatureIdle /\ InfoIdle /\ HistoryIdle /\ PRNGIdle

\* Lines 344-350: GTG seeded with the identity, the fork, and every thread's
\* GTG_private seeded with the identity too.
InformationMatrixCall ==
    /\ op = "GetInformationMatrixFromRegistrationResult"
    /\ AllAt("call")
    /\ GTG' = Identity6
    /\ GTG_private' = [w \in Threads |-> Identity6]
    /\ pc' = [w \in Threads |-> "for"]
    /\ effects' = effects \cup {"omp parallel"}
    /\ UNCHANGED <<inputVars, mutex, returned, result, driverVars, evalVars,
                   featureVars, info_c, trace, evaluator_runs, exhausted_start, loopHistory,
                   prngVars>>

\* Lines 352-374: the loop is an `omp parallel for` nested in the parallel
\* region, not an `omp for` of it: every thread of the region runs the whole
\* loop on its own GTG_private (the nested region is a team of one, nested
\* parallelism being off unless the environment turns it on).  One
\* iteration of thread w.
InformationIteration(w) ==
    /\ op = "GetInformationMatrixFromRegistrationResult"
    /\ pc[w] = "for"
    /\ info_c[w] < Len(corres)
    /\ LET t == corres[info_c[w] + 1][2]
       IN  GTG_private' =
               [GTG_private EXCEPT ![w] = Add6(@, Contribution(target[t + 1]))]
    /\ info_c' = [info_c EXCEPT ![w] = @ + 1]
    /\ UNCHANGED <<inputVars, pc, mutex, returned, result, driverVars, evalVars,
                   featureVars, GTG, historyVars,
                   prngVars>>

InformationLoopExit(w) ==
    /\ op = "GetInformationMatrixFromRegistrationResult"
    /\ pc[w] = "for"
    /\ info_c[w] >= Len(corres)
    /\ pc' = [pc EXCEPT ![w] = "critical"]
    /\ UNCHANGED <<inputVars, mutex, returned, result, driverVars, evalVars,
                   featureVars, infoVars, historyVars,
                   prngVars>>

\* Line 376: omp critical, entry.
InformationReduceEnter(w) ==
    /\ op = "GetInformationMatrixFromRegistrationResult"
    /\ pc[w] = "critical"
    /\ mutex = Free
    /\ mutex' = w
    /\ pc' = [pc EXCEPT ![w] = "reduce"]
    /\ UNCHANGED <<inputVars, returned, result, driverVars, evalVars, featureVars,
                   infoVars, historyVars,
                   prngVars>>

\* Lines 378-380: GTG += GTG_private, and the exit of the critical section.
InformationReduce(w) ==
    /\ op = "GetInformationMatrixFromRegistrationResult"
    /\ pc[w] = "reduce"
    /\ mutex = w
    /\ GTG' = Add6(GTG, GTG_private[w])
    /\ mutex' = Free
    /\ pc' = [pc EXCEPT ![w] = "joined"]
    /\ UNCHANGED <<inputVars, returned, result, driverVars, evalVars, featureVars,
                   GTG_private, info_c, historyVars,
                   prngVars>>

\* Lines 382-384: the join and the return of GTG.
InformationMatrixReturn ==
    /\ op = "GetInformationMatrixFromRegistrationResult"
    /\ AllAt("joined")
    /\ returned' = [GTG |-> GTG]
    /\ pc' = [w \in Threads |-> "done"]
    /\ UNCHANGED <<inputVars, mutex, result, driverVars, evalVars, featureVars,
                   infoVars, historyVars,
                   prngVars>>

NextInformationMatrix ==
    \/ InformationMatrixCall
    \/ \E w \in Threads : InformationIteration(w)
    \/ \E w \in Threads : InformationLoopExit(w)
    \/ \E w \in Threads : InformationReduceEnter(w)
    \/ \E w \in Threads : InformationReduce(w)
    \/ InformationMatrixReturn

SpecInformation == InitInformationMatrix /\ [][NextInformationMatrix]_vars

InformationReturned ==
    /\ op = "GetInformationMatrixFromRegistrationResult"
    /\ returned # NotReturned

RECURSIVE SumContributions(_, _)
SumContributions(cs, tgt) ==
    IF cs = <<>> THEN Zero6
    ELSE Add6(Contribution(tgt[cs[1][2] + 1]), SumContributions(Tail(cs), tgt))

\* C2: called with an empty correspondence set, the builder returns exactly
\* the 6x6 identity, whatever the team size.
C2_EmptySetGivesIdentity ==
    (InformationReturned /\ corres = <<>>) => returned.GTG = Identity6

\* C6: for every team size the builder returns the identity seed plus the
\* sum over the correspondence set of the contributions, each counted once.
C6_SeedPlusEachContributionOnce ==
    InformationReturned =>
        returned.GTG = Add6(Identity6, SumContributions(corres, target))

\* What the code returns: the seed, plus one more identity and one more
\* copy of every contribution for each thread of the team.
InformationMatrixOfTheCode ==
    InformationReturned =>
        \A r \in 1..6, c \in 1..6 :
            returned.GTG[r][c] =
                Identity6[r][c]
                + num_threads * (Identity6[r][c] + SumContributions(corres, target)[r][c])

\* ------------------------------------------------------------ the whole core
\* One call of one of the five operations.

Init ==
    \/ InitEvaluateRegistration
    \/ InitRegistrationICP
    \/ InitRANSACBasedOnCorrespondence
    \/ InitRANSACBasedOnFeatureMatching
    \/ InitInformationMatrix

Next ==
    \/ NextEvaluateRegistration
    \/ NextRegistrationICP
    \/ NextRANSACBasedOnCorrespondence
    \/ NextRANSACBasedOnFeatureMatching
    \/ NextInformationMatrix

Spec == Init /\ [][Next]_vars

\* The call has an argument the operation refuses.
CalledWithInvalidArguments ==
    \/ /\ op \in {"EvaluateRegistration", "RegistrationICP"}
       /\ max_correspondence_distance <= 0
    \/ /\ op = "RegistrationRANSACBasedOnCorrespondence"
       /\ (ransac_n < 3 \/ Len(corres) < ransac_n \/ max_correspondence_distance <= 0)
    \/ /\ op = "RegistrationRANSACBasedOnFeatureMatching"
       /\ (ransac_n < 3 \/ max_correspondence_distance <= 0)

\* C10 as stated: on invalid arguments the first step of every operation
\* returns the default result, with the identity as its transformation,
\* RegistrationICP alone carrying another one (init).
C10_OnlyICPKeepsItsTransformation ==
    (CalledWithInvalidArguments /\ ~AllAt("call")) =>
        returned = RegistrationResult(IF op = "RegistrationICP" THEN init ELSE Identity4)

\* C10, amended: on invalid arguments the first step of every operation
\* returns a result with no correspondence, fitness_ 0 and inlier_rmse_ 0;
\* its transformation is the identity for the two RANSAC drivers, init for
\* RegistrationICP and the argument T for EvaluateRegistration.
C10_InvalidArgumentsResult ==
    (CalledWithInvalidArguments /\ ~AllAt("call")) =>
        returned = RegistrationResult(
                       CASE op = "RegistrationICP" -> init
                         [] op = "EvaluateRegistration" -> transformation
                         [] OTHER -> Identity4)

\* C10 witness: EvaluateRegistration called with max_dist <= 0 and a T that
\* is not the identity has returned an empty result that carries T.
C10_Witness ==
    /\ CalledWithInvalidArguments
    /\ returned # NotReturned
    /\ op = "EvaluateRegistration"
    /\ transformation # Identity4
    /\ returned.transformation_ = transformation
    /\ returned.correspondence_set_ = <<>>
    /\ RatIsZero(returned.fitness_)

\* ------------------------------------------------ fitness_ and inlier_rmse_

\* A RegistrationResult has been returned (the information matrix returns a
\* matrix, not a result).
ResultReturned ==
    /\ op # "GetInformationMatrixFromRegistrationResult"
    /\ returned # NotReturned

\* C11 as stated: every returned result has fitness_ = 0 if and only if its
\* inlier_rmse_ is 0.
C11_ZeroFitnessIffZeroRMSE ==
    ResultReturned =>
        (RatIsZero(returned.fitness_) <=> RatIsZero(returned.inlier_rmse_))

\* C11, amended: every returned result with fitness_ = 0 has inlier_rmse_ = 0
\* (an inlier_rmse_ > 0 comes with a fitness_ > 0); a result with
\* fitness_ > 0 may have inlier_rmse_ = 0, and the Evaluator's has it exactly
\* when every pair of its correspondence_set_ is at distance 0.
C11_ZeroFitnessGivesZeroRMSE ==
    ResultReturned =>
        /\ RatIsZero(returned.fitness_) => RatIsZero(returned.inlier_rmse_)
        /\ (op = "EvaluateRegistration" /\ ~RatIsZero(returned.fitness_)) =>
              (RatIsZero(returned.inlier_rmse_) <=>
                  \A c \in Range(returned.correspondence_set_) :
                      squaredNorm(pcd[c[1] + 1], target[c[2] + 1]) = 0)

\* C11 witness: the Evaluator ran on a non-empty source against a non-empty
\* target, found no pair, and returned fitness_ 0 with inlier_rmse_ 0.
C11_Witness ==
    /\ EvaluatorRan
    /\ source # <<>>
    /\ target # <<>>
    /\ RatIsZero(returned.fitness_)
    /\ RatIsZero(returned.inlier_rmse_)

\* A returned result of positive fitness_ and zero inlier_rmse_ (a perfect
\* alignment) exists.
PerfectAlignmentReturned ==
    /\ ResultReturned
    /\ ~RatIsZero(returned.fitness_)
    /\ RatIsZero(returned.inlier_rmse_)

\* ------------------------------------------- the RANSAC drivers' early return

\* A RANSAC driver called with an argument it refuses.
RANSACPreconditionFails ==
    /\ op \in {"RegistrationRANSACBasedOnCorrespondence",
               "RegistrationRANSACBasedOnFeatureMatching"}
    /\ CalledWithInvalidArguments

\* C12: a RANSAC driver whose precondition fails returns the default result
\* as its first step and does nothing else, before or after: no srand and no
\* rand, no KDTreeFlann built, no Check, no ComputeTransformation, no
\* Transform, no scoring, and no thread ever inside a parallel region.
C12_NothingBeforeTheDefaultResult ==
    RANSACPreconditionFails =>
        /\ effects = {}
        /\ estimation_calls = 0
        /\ evaluator_runs = 0
        /\ itr = 0
        /\ next_itr = 0
        /\ \A w \in Threads : pc[w] \in {"call", "done"} /\ trace[w] = <<>>
        /\ ~AllAt("call") => returned = RegistrationResult(Identity4)

\* C12 witness: the correspondence driver, with ransac_n and max_dist valid
\* and fewer pairs than ransac_n, has returned.
C12_Witness ==
    /\ op = "RegistrationRANSACBasedOnCorrespondence"
    /\ ransac_n >= 3
    /\ max_correspondence_distance > 0
    /\ Len(corres) < ransac_n
    /\ corres # <<>>
    /\ returned = RegistrationResult(Identity4)
    /\ effects = {}

\* ------------------------------------ the steps of a feature-matching iteration

\* The positions of the calls of a callee in a trace.
Positions(t, callee) == {n \in 1..Len(t) : t[n].call = callee}

\* The checkers of one kind, by index.
CheckersOfKind(alignment) ==
    {k \in 1..Len(checkers) : checkers[k].require_pointcloud_alignment_ = alignment}

\* The calls of Check among positions ns of trace t answered true.
AnsweredTrue(t, ns) == {t[n].checker : n \in {n2 \in ns : t[n2].call = "Check" /\ t[n2].answer}}

\* The trace of one iteration is ordered and gated.
OrderedAndGated(t) ==
    LET fit == Positions(t, "ComputeTransformation")
        score == Positions(t, "GetRegistrationResultAndCorrespondences")
        count == Positions(t, "total_validation++")
        check == Positions(t, "Check")
        beforeFit == {n \in 1..Len(t) : \A f \in fit : n < f}
        afterFit == {n \in 1..Len(t) : \E f \in fit : n > f}
    IN  /\ Cardinality(fit) <= 1 /\ Cardinality(score) <= 1 /\ Cardinality(count) <= 1
        /\ \A n \in check :
              checkers[t[n].checker].require_pointcloud_alignment_ = (n \in afterFit)
        /\ fit # {} => CheckersOfKind(FALSE) \subseteq AnsweredTrue(t, beforeFit)
        /\ fit # {} => \A n \in beforeFit : t[n].answer
        /\ score # {} =>
              /\ fit # {}
              /\ CheckersOfKind(TRUE) \subseteq AnsweredTrue(t, afterFit)
              /\ \A n \in 1..Len(t) : t[n].answer
              /\ \A s \in score, f \in fit : f < s
        /\ count # {} => \E s \in score : \A c \in count : s < c

\* The threads that have scored a hypothesis and not yet counted it.
Counting == {w \in Threads : pc[w] \in {"critical", "count"}}

\* C15: in every feature-matching iteration only the checkers with
\* require_pointcloud_alignment_ false are called before the fit, the fit is
\* made only if all of them answered true, only the checkers with the flag
\* true are called after the fit, the Evaluator runs only if all of those
\* answered true, and total_validation is incremented exactly once for the
\* iteration if and only if the Evaluator ran in it: an iteration a checker
\* refused counts no validation.
C15_OrderedAndGated ==
    FeatureMatchingRuns =>
        /\ \A w \in Threads :
              /\ OrderedAndGated(trace[w])
              /\ w \in Counting =>
                    /\ Positions(trace[w], "GetRegistrationResultAndCorrespondences") # {}
                    /\ Positions(trace[w], "total_validation++") = {}
              /\ w \notin Counting =>
                    (Positions(trace[w], "GetRegistrationResultAndCorrespondences") # {}
                        <=> Positions(trace[w], "total_validation++") # {})
        /\ total_validation + Cardinality(Counting) = evaluator_runs

\* C15 witness: with a checker of each kind, one thread's iteration was
\* refused after the fit and another's ran the Evaluator and was counted,
\* the only validation counted.
C15_Witness ==
    /\ FeatureMatchingRuns
    /\ num_threads >= 2
    /\ Len(checkers) = 2
    /\ Len(trace[0]) = 3
    /\ trace[0][2].call = "ComputeTransformation"
    /\ trace[0][3] = Called("Check", 2, FALSE)
    /\ Positions(trace[1], "total_validation++") # {}
    /\ total_validation = 1
    /\ next_itr >= 2

\* C16: no iteration goes to work (samples, fits, scores) when, as it
\* starts, total_validation >= max_validation_.
C16_NoWorkOnceExhausted ==
    FeatureMatchingRuns => ~exhausted_start

\* With max_validation_ >= 1 and one thread (no stale read of the flag), no
\* iteration goes to work on an exhausted budget.
NoWorkOnceExhaustedSingleThread ==
    (FeatureMatchingRuns /\ num_threads = 1 /\ criteria.max_validation_ >= 1)
        => ~exhausted_start

\* With max_validation_ = 0 the first iteration goes to work: the flag is
\* only ever set after a validation.
FirstIterationRunsOnZeroBudget ==
    (FeatureMatchingRuns /\ criteria.max_validation_ = 0 /\ next_itr >= 1)
        => exhausted_start

\* ------------------------------------------------ RegistrationICP terminates

\* RegistrationICP is a sequential function: a step that is enabled is taken.
SpecICPFair == SpecICP /\ WF_vars(NextRegistrationICP)

ICPRuns ==
    /\ op = "RegistrationICP"
    /\ max_correspondence_distance > 0

BothTests == last_tests.fitness /\ last_tests.rmse

\* The score at init, no estimation called.
ScoreAtInit ==
    GetRegistrationResultAndCorrespondences(
        ClonedSource(source, init), target, max_correspondence_distance, init)

\* The safety half of C17.
ICPLoopBounded ==
    ICPRuns =>
        /\ estimation_calls <= (IF criteria.max_iteration_ > 0
                                THEN criteria.max_iteration_ ELSE 0)
        /\ (returned # NotReturned /\ criteria.max_iteration_ <= 0) =>
              /\ estimation_calls = 0
              /\ returned = ScoreAtInit
        \* an iteration in which both tests hold is the last one
        /\ BothTests => /\ pc[0] \in {"break", "done"}
                        /\ estimation_calls = icp_i + 1
        \* the loop goes on after an iteration in which they do not both hold
        /\ (estimation_calls >= 1 /\ ~BothTests) => estimation_calls = icp_i
        /\ pc[0] = "break" => BothTests
        \* a return before max_iteration_ is a return on both tests
        /\ (returned # NotReturned /\ estimation_calls < criteria.max_iteration_)
              => BothTests

\* C17: RegistrationICP with max_dist > 0 returns in every run; it calls the
\* estimation at most max_iteration_ times (never when max_iteration_ <= 0,
\* returning the score at init); it leaves the loop at the end of the first
\* iteration in which both |delta fitness_| < relative_fitness_ and
\* |delta inlier_rmse_| < relative_rmse_, and at an iteration in which only
\* one of them holds it does not leave before max_iteration_.
C17_TerminatesWithinMaxIteration ==
    /\ []ICPLoopBounded
    /\ <>(ICPRuns => returned # NotReturned)

\* C17 witness: a run with max_iteration_ = 2 has returned after two
\* estimation calls, the last iteration having passed the fitness test alone.
C17_Witness ==
    /\ ICPRuns
    /\ criteria.max_iteration_ = 2
    /\ returned # NotReturned
    /\ estimation_calls = 2
    /\ last_tests.fitness
    /\ ~last_tests.rmse
    /\ criteria.relative_rmse_.num > 0

\* A run has left the loop by the break in its second iteration.
BreakInSecondIteration ==
    /\ ICPRuns
    /\ pc[0] = "break"
    /\ estimation_calls = 2

\* --------------------------- the iterations of the correspondence driver

CorrespondenceRuns ==
    /\ op = "RegistrationRANSACBasedOnCorrespondence"
    /\ ransac_n >= 3
    /\ Len(corres) >= ransac_n
    /\ max_correspondence_distance > 0

\* max(0, min(max_iteration_, max_validation_)).
ExpectedIterations ==
    LET least == IF criteria.max_iteration_ < criteria.max_validation_
                 THEN criteria.max_iteration_ ELSE criteria.max_validation_
    IN  IF least > 0 THEN least ELSE 0

\* C18: RegistrationRANSACBasedOnCorrespondence, its preconditions holding,
\* makes exactly max(0, min(max_iteration_, max_validation_)) iterations,
\* each of ransac_n draws, one ComputeTransformation and one scoring on
\* corres (fitness_ = good / |corres|), and returns the default result or
\* one of the results scored in them.
C18_ExactlyMinIterations ==
    CorrespondenceRuns =>
        /\ itr <= ExpectedIterations
        /\ estimation_calls = itr
        /\ score_calls = itr
        /\ rand_calls = itr * ransac_n
        /\ Cardinality(hypotheses) <= itr
        /\ \A h \in hypotheses :
              /\ h.correspondence_set_ = <<>>
              /\ ~RatIsZero(h.fitness_) =>
                    /\ h.fitness_.den = Len(corres)
                    /\ h.fitness_.num \in 1..Len(corres)
        /\ returned # NotReturned =>
              /\ itr = ExpectedIterations
              /\ returned = RegistrationResult(Identity4) \/ returned \in hypotheses

\* C18 witness: max_validation_ below max_iteration_, two iterations made,
\* and one of two different scored results returned.
C18_Witness ==
    /\ CorrespondenceRuns
    /\ criteria.max_validation_ = 2
    /\ criteria.max_iteration_ > 2
    /\ returned # NotReturned
    /\ itr = 2
    /\ Cardinality(hypotheses) = 2
    /\ returned \in hypotheses

\* A run with a negative cap has returned the default result without an
\* iteration.
NegativeCapReturned ==
    /\ CorrespondenceRuns
    /\ criteria.max_iteration_ < 0
    /\ criteria.max_validation_ > 0
    /\ returned = RegistrationResult(Identity4)
    /\ itr = 0

\* ------------------------------------------------------ the caller's inputs

\* C14: no step of any operation changes the caller's source cloud, target
\* cloud, features or correspondence set: every Transform works on a copy
\* the driver (or one iteration) owns.
C14_InputsUnchanged ==
    [][/\ source' = source
       /\ target' = target
       /\ source_feature' = source_feature
       /\ target_feature' = target_feature
       /\ corres' = corres]_vars

\* C14 witness: RegistrationICP has returned after moving its copy of a
\* non-empty source, by init and by an update, away from the source.
C14_Witness ==
    /\ op = "RegistrationICP"
    /\ returned # NotReturned
    /\ "Transform" \in effects
    /\ init # Identity4
    /\ estimation_calls >= 1
    /\ source # <<>>
    /\ pcd # source
    /\ pcd = Transform(source, transformation)

\* ----------------------------------------------- std::srand and std::rand
\* The calls RegistrationRANSACBasedOnFeatureMatching makes to the C
\* library's generator, lines 244-266: every thread of the team seeds it
\* (lines 247-252) and then draws ransac_n times for its first sample (line
\* 264), each call of the library being one step.
\*
\* An unsigned int is 32 bits wide, kept as <<high 16 bits, low 16 bits>>.
\* The generator is the C standard's sample implementation:
\*   next = next * 1103515245 + 12345;  return (next / 65536) % 32768;
\* The library keeps `next` once for the process, or once per thread (as the
\* Microsoft C runtime does); both are explored.

\* Largest OpenMP team explored for the generator.
MaxTeam == 3

\* The low 16 bits of a * b, for a, b < 2^16.
Low16Mul(a, b) == (((a * (b \div 256)) % 256) * 256 + a * (b % 256)) % 65536

\* Bits 16..31 of a * b, for a, b < 2^16.
High16Mul(a, b) ==
    LET x == a * (b \div 256)
        y == a * (b % 256)
    IN  (x \div 256) + (((x % 256) * 256 + y) \div 65536)

\* a * b mod 2^32.
Mul32(a, b) ==
    <<(High16Mul(a[2], b[2]) + Low16Mul(a[1], b[2]) + Low16Mul(a[2], b[1])) % 65536,
      Low16Mul(a[2], b[2])>>

\* a + b mod 2^32.
Add32(a, b) ==
    <<(a[1] + b[1] + ((a[2] + b[2]) \div 65536)) % 65536, (a[2] + b[2]) % 65536>>

\* The values of (unsigned int)std::time(0) explored: 0 (the epoch, and
\* 2^32 seconds after it), 1700000000 (November 2023), 2^31 (19 January
\* 2038) and 2^32 - 1 (time() failing with -1).
Times == {<<0, 0>>, <<25939, 61696>>, <<32768, 0>>, <<65535, 65535>>}

\* Lines 247-248: seed_number of thread k (omp_get_thread_num() = k) at clock
\* t: (unsigned int)std::time(0) * (k + 1), in unsigned arithmetic.  Line 250,
\* the build without OpenMP, is the case k = 0.
SeedNumber(t, k) == Mul32(t, <<0, k + 1>>)

\* The state after one call of rand().
RandNext(next) == Add32(Mul32(next, <<16838, 20077>>), <<0, 12345>>)

\* What that call of rand() returns.
RandValue(next) == RandNext(next)[1] % 32768

\* The cell of the library's state thread w works on.
Cell(w) == IF rand_shared THEN 0 ELSE w

InitPRNG ==
    /\ op = "RegistrationRANSACBasedOnFeatureMatching"
    /\ num_threads \in 1..MaxTeam
    /\ source = SubSeq(PointPool, 1, 2)
    /\ target = SubSeq(PointPool, 1, 2)
    /\ source_feature = Feature(source)
    /\ target_feature = Feature(target)
    /\ max_correspondence_distance = 1
    /\ estimation = "MeanShift"
    /\ ransac_n = 3
    /\ checkers = <<>>
    /\ criteria = [max_iteration_ |-> 1, max_validation_ |-> 1]
    /\ transformation = Identity4
    /\ corres = <<>>
    /\ NoInit
    /\ DriverIdle
    /\ EvalIdle /\ FeatureIdle /\ InfoIdle /\ HistoryIdle
    /\ wall_clock \in Times
    /\ rand_shared \in BOOLEAN
    /\ seed_number = [w \in Threads |-> <<0, 0>>]
    /\ rand_next = [w \in Threads |-> <<0, 1>>]
    /\ draws = [w \in Threads |-> <<>>]

\* Lines 229-243: the arguments are accepted and the team forked.
Fork ==
    /\ op = "RegistrationRANSACBasedOnFeatureMatching"
    /\ AllAt("call")
    /\ ~(ransac_n < 3 \/ max_correspondence_distance <= 0)
    /\ pc' = [w \in Threads |-> "seed"]
    /\ result' = RegistrationResult(Identity4)
    /\ effects' = effects \cup {"omp parallel", "KDTreeFlann"}
    /\ UNCHANGED <<inputVars, mutex, returned, driverVars, evalVars, featureVars,
                   infoVars, trace, evaluator_runs, exhausted_start, loopHistory,
                   prngVars>>

\* Lines 244-252: thread w computes its seed_number and calls std::srand.
Srand(w) ==
    /\ op = "RegistrationRANSACBasedOnFeatureMatching"
    /\ pc[w] = "seed"
    /\ seed_number' = [seed_number EXCEPT ![w] = SeedNumber(wall_clock, w)]
    /\ rand_next' = [rand_next EXCEPT ![Cell(w)] = seed_number'[w]]
    /\ pc' = [pc EXCEPT ![w] = "sample"]
    /\ effects' = effects \cup {"srand"}
    /\ UNCHANGED <<inputVars, mutex, returned, result, driverVars, evalVars,
                   featureVars, infoVars, trace, evaluator_runs, exhausted_start,
                   loopHistory, wall_clock, rand_shared, draws>>

\* Line 264: one std::rand() % (int)source.points_.size() of thread w, the
\* j-th of its first sample.
Rand(w) ==
    /\ op = "RegistrationRANSACBasedOnFeatureMatching"
    /\ pc[w] = "sample"
    /\ draws' = [draws EXCEPT ![w] =
                    Append(@, RandValue(rand_next[Cell(w)]) % Len(source))]
    /\ rand_next' = [rand_next EXCEPT ![Cell(w)] = RandNext(@)]
    /\ pc' = [pc EXCEPT ![w] = IF Len(draws'[w]) >= ransac_n THEN "sampled" ELSE "sample"]
    /\ effects' = effects \cup {"rand"}
    /\ UNCHANGED <<inputVars, mutex, returned, result, driverVars, evalVars,
                   featureVars, infoVars, trace, evaluator_runs, exhausted_start,
                   loopHistory, wall_clock, rand_shared, seed_number>>

NextPRNG ==
    \/ Fork
    \/ \E w \in Threads : Srand(w)
    \/ \E w \in Threads : Rand(w)

SpecPRNG == InitPRNG /\ [][NextPRNG]_vars

\* The first n values a generator of its own, seeded with seed, gives.
RECURSIVE OwnDraws(_, _, _)
OwnDraws(next, n, size) ==
    IF n = 0 THEN <<>>
    ELSE <<RandValue(next) % size>> \o OwnDraws(RandNext(next), n - 1, size)

Seeded(w) == pc[w] \in {"sample", "sampled"}

\* C13: the generator's state belongs to the call and to each worker: what
\* a worker draws is what its own seed determines, whatever the other
\* workers seed or draw meanwhile.
C13_DrawsOfOwnSeed ==
    \A w \in Threads :
        Seeded(w) => draws[w] = OwnDraws(seed_number[w], Len(draws[w]), Len(source))

\* With a library that keeps one state per thread the draws of a worker are
\* those of its own seed.
DrawsOfOwnSeedPerThread ==
    ~rand_shared => C13_DrawsOfOwnSeed

\* C19: the seed_numbers of two distinct workers of a call differ, whatever
\* the clock.
C19_SeedsPairwiseDistinct ==
    \A w1 \in Threads, w2 \in Threads :
        (w1 # w2 /\ Seeded(w1) /\ Seeded(w2)) => seed_number[w1] # seed_number[w2]

\* At the clock of November 2023 the seeds of a team of up to MaxTeam
\* threads differ.
SeedsDistinctToday ==
    wall_clock = <<25939, 61696>> => C19_SeedsPairwiseDistinct

====
